---- MODULE Spec2Model ----
(***************************************************************************)
(* Sleep-Modes: the five-test sleep-mode suite of src/src/Sleep-Modes.ino   *)
(* (setup, loop, the five test procedures, the watchdog ISR, the publish    *)
(* meter and the elapsed-time verifier) and the setDuration entry point of  *)
(* the two-test program listed in src/README.md.                            *)
(*                                                                          *)
(* Time: millis and lastPublish are milliseconds since boot, rtcTime is the *)
(* RTC's clock in seconds (it survives a reboot, millis does not).  Every   *)
(* blocking call advances both by the same amount.  The program reads RTC   *)
(* times only to store one, to subtract two, and to compare the stored one  *)
(* with 0, so a state is kept up to a shift of the RTC's epoch: see Rebase. *)
(***************************************************************************)
EXTENDS Integers, Sequences, FiniteSets, TLC

VARIABLES
  pc,                    \* where the process is: boot, loop, clear, switch, asleep, off
                         \* (and verify, verified in SpecVerify)
  testNumber,            \* uint8_t testNumber
  numberOfTestsPassed,   \* int numberOfTestsPassed
  watchDogFlag,          \* volatile bool watchDogFlag
  testDurationSeconds,   \* const 20 in Sleep-Modes.ino, a variable in README.md
  eeTestNumber,          \* EEPROM byte at testNumberAddr
  eeTestStartTime,       \* EEPROM 4 bytes at testStartTimeAddr
  eeNumberOfTestsPassed, \* EEPROM byte at numberOfTestsPassedAddr
  eeTestDurationSeconds, \* EEPROM 4 bytes at testDurationSecondsAddr (README.md)
  millis,                \* millis(): ms since this boot
  lastPublish,           \* static lastPublish of meterParticlePublish
  rtcTime,               \* rtc.getRTCTime(): seconds
  emits,                 \* history: millis of the latest Particle.publish calls of this boot
  lastMsg,               \* history: the latest Particle.publish (name, data)
  lastCall,              \* history: what the latest switch case did
  calls,                 \* history: test procedures called in this boot (2: two or more)
  bootRec,               \* history: the EEPROM content setup() found
  isrCount,              \* history: watchdogISR firings of this boot
  unreported,            \* history: watchdogISR fired after this boot's latest "Watchdog" publish
  retVal,                \* README.md: the latest return value of setDuration
  lastArg                \* README.md: the number strtol read from the latest command

vars == <<pc, testNumber, numberOfTestsPassed, watchDogFlag, testDurationSeconds,
          eeTestNumber, eeTestStartTime, eeNumberOfTestsPassed, eeTestDurationSeconds,
          millis, lastPublish, rtcTime, emits, lastMsg, lastCall, calls, bootRec,
          isrCount, unreported, retVal, lastArg>>

\* what only the program of README.md writes
readmeVars == <<eeTestDurationSeconds, retVal, lastArg>>

---------------------------------------------------------------------------
\* Program constants

numberOfTests == 5

DefaultDuration == 20

PublishInterval == 1000

AlarmSeconds == 10

AlarmTimeoutMs == 12000

ReportDelayMs == 30000

PowerOffDelayMs == 5000

BaseAdjustment == 2

\* README.md: unsigned long testDurationSeconds = 60
ReadmeDefaultDuration == 60

\* README.md: const int numberOfTests = 2
ReadmeNumberOfTests == 2

\* README.md: the largest duration setDuration accepts
MaxDuration == 3600

\* README.md: delay(1000) at the end of setDuration
SetDurationDelayMs == 1000

\* README.md: delay(10000) before a test starts its interval
ReadmeTestDelayMs == 10000

\* README.md: delay(60000) after the completion message
ReadmeCompleteDelayMs == 60000

\* LONG_MAX of the 32-bit long that strtol returns
LongMax == 2147483647

---------------------------------------------------------------------------
\* Bounds of the model

MaxISR == 2

MaxStoredByte == 6

RTCEpoch == 1000

SleepSlack == 3

EmitWindow == 2

MaxElapsed == 30

\* calls of setDuration in one run
MaxCalls == 2

\* how far beyond each end of 0..MaxDuration the commands reach
CommandSlack == 2

\* EEPROM bytes the first boot may find (the erased value 255 included)
StoredBytes == (0..MaxStoredByte) \cup {255}

Byte == 0..255

\* EEPROM pass counts the first boot may find
StoredCounts == {0, numberOfTests, numberOfTests + 1, 255}

\* EEPROM start timestamps the first boot may find: none, or one of 21 s or 5 s ago
StoredStartAges == {0, DefaultDuration + 1, 5}

\* seconds a timed stop-mode sleep may take
SleepSecs == {DefaultDuration - SleepSlack, DefaultDuration, DefaultDuration + SleepSlack}

\* ms after which waitFor(alarmSounded, 12000) may return
AlarmWaitsMs == {AlarmSeconds * 1000, AlarmTimeoutMs}

\* seconds after which the interrupt-wake sleep may return (button or timeout)
ButtonSecs == {5, DefaultDuration, DefaultDuration + 1}

\* seconds the device may stay in deep sleep or powered off
SuspendSecs == {DefaultDuration - SleepSlack, DefaultDuration, DefaultDuration + SleepSlack}

\* README.md: seconds after which the stop-mode sleep may return (button or timeout)
ReadmeSleepSecs == {5, ReadmeDefaultDuration}

\* README.md: seconds the device may stay powered off
ReadmeSuspendSecs == {ReadmeDefaultDuration, ReadmeDefaultDuration + SleepSlack}

\* the numbers the cloud may send as a command
CommandValues ==
  ((0 - CommandSlack)..CommandSlack) \cup {ReadmeDefaultDuration}
  \cup ((MaxDuration - CommandSlack)..(MaxDuration + CommandSlack))

\* what the EEPROM may hold at the address of the duration: any unsigned long, of
\* which these are the default, zero, and two values beyond MaxDuration
StoredDurations == {ReadmeDefaultDuration, 0, MaxDuration + 1, LongMax}

\* ms the user may let pass before pressing the switch
PressWaitsMs == {0, 3000}

---------------------------------------------------------------------------
\* History records

NoCall == [test |-> -1, alarms |-> 0, begins |-> 0, ends |-> 0, suspends |-> 0,
           elapsed |-> -1, adjustment |-> -1, entryArmed |-> FALSE,
           intr |-> FALSE, pin |-> FALSE, ret |-> FALSE]

NoMsg == [name |-> "", text |-> "", a |-> 0, b |-> 0]

NoBoot == [testNumber |-> -1, passed |-> -1, armed |-> FALSE]

\* The RTC's epoch is arbitrary.  A state is kept with the stored start time, when
\* there is one, at RTCEpoch, and with the clock at RTCEpoch when there is none:
\* the difference rtc - st and the test st = 0 are those of the unshifted state.
Rebase(rtc, st) ==
  IF st = 0 THEN [rtc |-> RTCEpoch, st |-> 0]
            ELSE [rtc |-> RTCEpoch + (rtc - st), st |-> RTCEpoch]

\* the latest EmitWindow entries of a history
Window(q) == IF Len(q) > EmitWindow THEN SubSeq(q, Len(q) - EmitWindow + 1, Len(q)) ELSE q

---------------------------------------------------------------------------
\* The state a procedure reads and writes, threaded through its statements

Ctx == [tn |-> testNumber, tds |-> testDurationSeconds, ms |-> millis, rtc |-> rtcTime,
        lp |-> lastPublish, st |-> eeTestStartTime, emits |-> emits, msg |-> lastMsg,
        call |-> [NoCall EXCEPT !.test = testNumber, !.entryArmed = (eeTestStartTime # 0)],
        ret |-> FALSE, suspended |-> FALSE]

\* The element of a singleton.  A procedure that reads its context more than once
\* binds it as The({e : s \in {ctx}}): the context is then computed once per call.
The(S) == CHOOSE x \in S : TRUE

\* a blocking call that takes ms milliseconds: both clocks advance
Pass(s, ms) == [s EXCEPT !.ms = @ + ms, !.rtc = @ + (ms \div 1000)]

\* mutant: the meter admits every call
meterParticlePublish_NoWait(now, lp) == [admit |-> TRUE, lastPublish |-> now]

\* bool meterParticlePublish(): admit iff a second has passed, and note the time
meterParticlePublish(now, lp) ==
  IF now - lp >= PublishInterval
    THEN [admit |-> TRUE, lastPublish |-> now]
    ELSE [admit |-> FALSE, lastPublish |-> lp]

\* waitUntil(meterParticlePublish): poll until the meter admits the call
WaitUntilPublish(ctx) ==
  The({LET t == IF meterParticlePublish(s.ms, s.lp).admit THEN s.ms
                                                          ELSE s.lp + PublishInterval
           w == Pass(s, t - s.ms)
       IN  [w EXCEPT !.lp = meterParticlePublish(t, s.lp).lastPublish] : s \in {ctx}})

\* Particle.publish(name, data, PRIVATE)
ParticlePublish(ctx, name, text, a, b) ==
  The({[s EXCEPT !.emits = Window(Append(@, s.ms)),
                 !.msg = [name |-> name, text |-> text, a |-> a, b |-> b]] : s \in {ctx}})

\* waitUntil(meterParticlePublish); Particle.publish(...)
Publish(s, name, text, a, b) == ParticlePublish(WaitUntilPublish(s), name, text, a, b)

\* mutant: the lower comparison is strict
elapsedTimeCorrect_Strict(ctx, start) ==
  The({LET adjustment == IF s.tn = 4 THEN BaseAdjustment + (s.ms \div 1000)
                                     ELSE BaseAdjustment
       IN  IF start
             THEN [s EXCEPT !.st = s.rtc, !.ret = FALSE, !.call.begins = @ + 1]
             ELSE LET startTime == s.st
                      elapsedTime == s.rtc - startTime
                      ok == s.tds > elapsedTime - adjustment /\ s.tds <= elapsedTime
                      z == [s EXCEPT !.st = 0, !.call.ends = @ + 1,
                                     !.call.elapsed = elapsedTime,
                                     !.call.adjustment = adjustment]
                      p == Publish(z, "Result",
                                   IF ok THEN "Passed elapsed time"
                                         ELSE "Failed elapsed time",
                                   elapsedTime, 0)
                  IN  [p EXCEPT !.ret = ok] : s \in {ctx}})

\* mutant: the comparison with elapsedTime - adjustment is missing
elapsedTimeCorrect_NoUpperLimit(ctx, start) ==
  The({LET adjustment == IF s.tn = 4 THEN BaseAdjustment + (s.ms \div 1000)
                                     ELSE BaseAdjustment
       IN  IF start
             THEN [s EXCEPT !.st = s.rtc, !.ret = FALSE, !.call.begins = @ + 1]
             ELSE LET startTime == s.st
                      elapsedTime == s.rtc - startTime
                      ok == s.tds <= elapsedTime
                      z == [s EXCEPT !.st = 0, !.call.ends = @ + 1,
                                     !.call.elapsed = elapsedTime,
                                     !.call.adjustment = adjustment]
                      p == Publish(z, "Result",
                                   IF ok THEN "Passed elapsed time"
                                         ELSE "Failed elapsed time",
                                   elapsedTime, 0)
                  IN  [p EXCEPT !.ret = ok] : s \in {ctx}})

\* bool elapsedTimeCorrect(bool start)
elapsedTimeCorrect(ctx, start) ==
  The({LET adjustment == IF s.tn = 4 THEN BaseAdjustment + (s.ms \div 1000)
                                     ELSE BaseAdjustment
       IN  IF start
             THEN [s EXCEPT !.st = s.rtc, !.ret = FALSE, !.call.begins = @ + 1]
             ELSE LET startTime == s.st
                      elapsedTime == s.rtc - startTime
                      ok == s.tds >= elapsedTime - adjustment /\ s.tds <= elapsedTime
                      z == [s EXCEPT !.st = 0, !.call.ends = @ + 1,
                                     !.call.elapsed = elapsedTime,
                                     !.call.adjustment = adjustment]
                      p == Publish(z, "Result",
                                   IF ok THEN "Passed elapsed time"
                                         ELSE "Failed elapsed time",
                                   elapsedTime, 0)
                  IN  [p EXCEPT !.ret = ok] : s \in {ctx}})

\* bool systemSleepTest(): the stop-mode sleep returns after secs seconds
systemSleepTest(s, secs) ==
  LET s1 == Publish(s, "Test", "System Stop Mode Sleep", 0, 0)
      s2 == elapsedTimeCorrect(s1, TRUE)
      s3 == Pass(s2, secs * 1000)
  IN  elapsedTimeCorrect(s3, FALSE)

\* mutant: the path without the interrupt reports a pass
rtcAlarmTest_PassWithoutInterrupt(s, waitMs, intr, pin) ==
  LET s1 == Publish(s, "Test", "RTC Alarm", 0, 0)
      s2 == elapsedTimeCorrect(s1, TRUE)
      s3 == [s2 EXCEPT !.call.alarms = @ + 1]
      s4 == Pass(s3, waitMs)
      s5 == [s4 EXCEPT !.call.intr = intr, !.call.pin = pin]
  IN  IF intr /\ pin
        THEN elapsedTimeCorrect(s5, FALSE)
        ELSE [Publish(s5, "Result", "Failed - No Interrupt", 0, 0) EXCEPT !.ret = TRUE]

\* bool rtcAlarmTest(): waitFor returns after waitMs; intr is rtc.getInterrupt(),
\* pin is digitalRead(wakeUpPin) at the check that follows
rtcAlarmTest(s, waitMs, intr, pin) ==
  LET s1 == Publish(s, "Test", "RTC Alarm", 0, 0)
      s2 == elapsedTimeCorrect(s1, TRUE)
      s3 == [s2 EXCEPT !.call.alarms = @ + 1]
      s4 == Pass(s3, waitMs)
      s5 == [s4 EXCEPT !.call.intr = intr, !.call.pin = pin]
  IN  IF intr /\ pin
        THEN elapsedTimeCorrect(s5, FALSE)
        ELSE [Publish(s5, "Result", "Failed - No Interrupt", 0, 0) EXCEPT !.ret = FALSE]

\* mutant: a wake at exactly the requested duration is a fail
systemSleepWakeOnInterruptTest_Strict(s, secs) ==
  LET s1 == Publish(s, "Test", "System Stop Mode with Wake on Interrupt", 0, 0)
      s2 == Publish(s1, "Test", "Press User Button to Wake", 0, 0)
      startTime == s2.rtc
      s3 == Pass(s2, secs * 1000)
      ok == s3.rtc - startTime < s.tds
      s4 == Publish(s3, "Results", IF ok THEN "Passed" ELSE "Failed", 0, 0)
  IN  [s4 EXCEPT !.ret = ok, !.call.elapsed = s3.rtc - startTime]

\* bool systemSleepWakeOnInterruptTest(): the sleep returns after secs seconds
systemSleepWakeOnInterruptTest(s, secs) ==
  LET s1 == Publish(s, "Test", "System Stop Mode with Wake on Interrupt", 0, 0)
      s2 == Publish(s1, "Test", "Press User Button to Wake", 0, 0)
      startTime == s2.rtc
      s3 == Pass(s2, secs * 1000)
      ok == s3.rtc - startTime <= s.tds
      s4 == Publish(s3, "Results", IF ok THEN "Passed" ELSE "Failed", 0, 0)
  IN  [s4 EXCEPT !.ret = ok, !.call.elapsed = s3.rtc - startTime]

\* mutant: the stored start time is not consulted, the test arms on every entry
systemDeepSleepRTCWakeTest_AlwaysArms(s) ==
  LET s1 == Publish(s, "Test", "System Deep Mode Sleep with RTC Wake", 0, 0)
      s2 == [s1 EXCEPT !.call.alarms = @ + 1]
      s3 == elapsedTimeCorrect(s2, TRUE)
  IN  [s3 EXCEPT !.call.suspends = @ + 1, !.suspended = TRUE]

\* bool systemDeepSleepRTCWakeTest(): System.sleep(SLEEP_MODE_DEEP) does not return
systemDeepSleepRTCWakeTest(s) ==
  LET startTime == s.st
  IN  IF startTime = 0
        THEN LET s1 == Publish(s, "Test", "System Deep Mode Sleep with RTC Wake", 0, 0)
                 s2 == [s1 EXCEPT !.call.alarms = @ + 1]
                 s3 == elapsedTimeCorrect(s2, TRUE)
             IN  [s3 EXCEPT !.call.suspends = @ + 1, !.suspended = TRUE]
        ELSE elapsedTimeCorrect(s, FALSE)

\* mutant: the power is cut before elapsedTimeCorrect(true) has stored the start time
powerOffSleepWithRTCWakeTest_CutFirst(s) ==
  LET startTime == s.st
  IN  IF startTime = 0
        THEN LET s1 == Publish(s, "Test", "Power Off with EN pin using RTC", 0, 0)
                 s2 == Pass(s1, PowerOffDelayMs)
                 s3 == [s2 EXCEPT !.call.alarms = @ + 1]
             IN  [s3 EXCEPT !.call.suspends = @ + 1, !.suspended = TRUE]
        ELSE elapsedTimeCorrect(s, FALSE)

\* bool powerOffSleepWithRTCWakeTest(): driving DeepSleepPin HIGH cuts the power
powerOffSleepWithRTCWakeTest(s) ==
  LET startTime == s.st
  IN  IF startTime = 0
        THEN LET s1 == Publish(s, "Test", "Power Off with EN pin using RTC", 0, 0)
                 s2 == Pass(s1, PowerOffDelayMs)
                 s3 == [s2 EXCEPT !.call.alarms = @ + 1]
                 s4 == elapsedTimeCorrect(s3, TRUE)
             IN  [s4 EXCEPT !.call.suspends = @ + 1, !.suspended = TRUE]
        ELSE elapsedTimeCorrect(s, FALSE)

---------------------------------------------------------------------------
\* Power-up and setup()

\* the globals as the start-up code leaves them, and empty histories
PowerUp ==
  /\ numberOfTestsPassed = 0
  /\ watchDogFlag = FALSE
  /\ millis = 0
  /\ lastPublish = 0
  /\ emits = <<>>
  /\ lastMsg = NoMsg
  /\ lastCall = NoCall
  /\ calls = 0
  /\ bootRec = NoBoot
  /\ isrCount = 0
  /\ unreported = FALSE
  /\ retVal = -1
  /\ lastArg = 0

\* the first power-up of the five-test program: the EEPROM holds whatever it holds
Init ==
  /\ pc = "boot"
  /\ PowerUp
  /\ testNumber = 0
  /\ testDurationSeconds = DefaultDuration
  /\ eeTestNumber \in StoredBytes
  /\ \E age \in StoredStartAges :
       /\ eeTestStartTime = (IF age = 0 THEN 0 ELSE RTCEpoch)
       /\ rtcTime = RTCEpoch + age
  /\ eeNumberOfTestsPassed \in StoredCounts
  /\ eeTestDurationSeconds = DefaultDuration

\* mutant: the stored test number is ignored, every boot starts at 0
LoadTestNumber_Restart(stored) == 0

\* mutant: the bound is off by one, a stored 6 is kept
LoadTestNumber_OffByOne(stored) == IF stored < 0 \/ stored > 6 THEN 0 ELSE stored

\* the bounds check of setup() on the stored test number (a uint8_t)
LoadTestNumber(stored) == IF stored < 0 \/ stored > 5 THEN 0 ELSE stored

\* the bounds check of setup() on the stored pass count
LoadTestsPassed(stored) == IF stored < 0 \/ stored > numberOfTests THEN 0 ELSE stored

\* void setup()
Setup ==
  /\ pc = "boot"
  /\ LET tn == LoadTestNumber(eeTestNumber)
         s  == Publish(Ctx, "Status",
                       IF tn # 0 THEN "Continuing after reset" ELSE "Beginning Test Run",
                       0, 0)
     IN  /\ testNumber' = tn
         /\ numberOfTestsPassed' = LoadTestsPassed(eeNumberOfTestsPassed)
         /\ millis' = s.ms
         /\ rtcTime' = Rebase(s.rtc, s.st).rtc
         /\ lastPublish' = s.lp
         /\ emits' = s.emits
         /\ lastMsg' = s.msg
  /\ bootRec' = [testNumber |-> eeTestNumber, passed |-> eeNumberOfTestsPassed,
                 armed |-> (eeTestStartTime # 0)]
  /\ pc' = "loop"
  /\ UNCHANGED <<watchDogFlag, testDurationSeconds, eeTestNumber, eeTestStartTime,
                 eeNumberOfTestsPassed, lastCall, calls,
                 isrCount, unreported, readmeVars>>

---------------------------------------------------------------------------
\* loop()

Running == pc \in {"loop", "clear", "switch"}

\* mutant: the handler also takes a turn at the publish meter
watchdogISR_UsesMeter ==
  /\ Running
  /\ isrCount < MaxISR
  /\ watchDogFlag' = TRUE
  /\ isrCount' = isrCount + 1
  /\ unreported' = TRUE
  /\ lastPublish' = meterParticlePublish(millis, lastPublish).lastPublish
  /\ UNCHANGED <<pc, testNumber, numberOfTestsPassed, testDurationSeconds, eeTestNumber,
                 eeTestStartTime, eeNumberOfTestsPassed, millis,
                 rtcTime, emits, lastMsg, lastCall, calls, bootRec, readmeVars>>

\* void watchdogISR(): may fire wherever interrupts are attached and the CPU runs
watchdogISR ==
  /\ Running
  /\ isrCount < MaxISR
  /\ watchDogFlag' = TRUE
  /\ isrCount' = isrCount + 1
  /\ unreported' = TRUE
  /\ UNCHANGED <<pc, testNumber, numberOfTestsPassed, testDurationSeconds, eeTestNumber,
                 eeTestStartTime, eeNumberOfTestsPassed, millis,
                 lastPublish, rtcTime, emits, lastMsg, lastCall, calls, bootRec, readmeVars>>

\* loop(), lines 72-74: the flag is set, so publish the watchdog notification
Service ==
  /\ pc = "loop"
  /\ watchDogFlag
  /\ LET s == Publish(Ctx, "Watchdog", "Interrupt", 0, 0)
     IN  /\ millis' = s.ms
         /\ rtcTime' = Rebase(s.rtc, s.st).rtc
         /\ lastPublish' = s.lp
         /\ emits' = s.emits
         /\ lastMsg' = s.msg
  /\ pc' = "clear"
  /\ unreported' = FALSE
  /\ UNCHANGED <<testNumber, numberOfTestsPassed, watchDogFlag, testDurationSeconds,
                 eeTestNumber, eeTestStartTime, eeNumberOfTestsPassed, lastCall, calls, bootRec, isrCount, readmeVars>>

\* loop(), line 75: watchDogFlag = false
ClearFlag ==
  /\ pc = "clear"
  /\ watchDogFlag' = FALSE
  /\ pc' = "switch"
  /\ UNCHANGED <<testNumber, numberOfTestsPassed, testDurationSeconds, eeTestNumber,
                 eeTestStartTime, eeNumberOfTestsPassed, millis,
                 lastPublish, rtcTime, emits, lastMsg, lastCall, calls, bootRec,
                 isrCount, unreported, readmeVars>>

\* the switch of loop() is reached: the flag was clear, or has just been cleared
AtSwitch == pc = "switch" \/ (pc = "loop" /\ ~watchDogFlag)

\* case 0, the switch reads HIGH: nothing happens
Case0Idle ==
  /\ AtSwitch
  /\ testNumber = 0
  /\ pc' = "loop"
  /\ lastCall' = [NoCall EXCEPT !.test = 0]
  /\ UNCHANGED <<testNumber, numberOfTestsPassed, watchDogFlag, testDurationSeconds,
                 eeTestNumber, eeTestStartTime, eeNumberOfTestsPassed, millis, lastPublish, rtcTime, emits, lastMsg,
                 calls, bootRec, isrCount, unreported, readmeVars>>

\* case 0, the switch reads LOW after the user waited waitMs: testNumber++
Case0Pressed(waitMs) ==
  /\ AtSwitch
  /\ testNumber = 0
  /\ testNumber' = (testNumber + 1) % 256
  /\ millis' = millis + waitMs
  /\ rtcTime' = Rebase(rtcTime + (waitMs \div 1000), eeTestStartTime).rtc
  /\ pc' = "loop"
  /\ lastCall' = [NoCall EXCEPT !.test = 0]
  /\ UNCHANGED <<numberOfTestsPassed, watchDogFlag, testDurationSeconds, eeTestNumber,
                 eeTestStartTime, eeNumberOfTestsPassed,
                 lastPublish, emits, lastMsg, calls, bootRec, isrCount, unreported, readmeVars>>

\* mutant: the "return 1" of the arm branch is reached and recorded before the
\* device stops
Record_CountsArmBranch(result) ==
  \E r \in {result} :
    /\ millis' = r.ms
    /\ rtcTime' = Rebase(r.rtc, r.st).rtc
    /\ lastPublish' = r.lp
    /\ emits' = r.emits
    /\ lastMsg' = r.msg
    /\ eeTestStartTime' = Rebase(r.rtc, r.st).st
    /\ lastCall' = [r.call EXCEPT !.ret = r.ret]
    /\ calls' = IF calls < 2 THEN calls + 1 ELSE calls
    /\ IF r.suspended
         THEN /\ pc' = IF r.tn = 4 THEN "asleep" ELSE "off"
              /\ numberOfTestsPassed' = numberOfTestsPassed + 1
              /\ testNumber' = (testNumber + 1) % 256
              /\ eeTestNumber' = testNumber'
              /\ eeNumberOfTestsPassed' = numberOfTestsPassed' % 256
         ELSE /\ numberOfTestsPassed' = IF r.ret THEN numberOfTestsPassed + 1
                                                 ELSE numberOfTestsPassed
              /\ testNumber' = (testNumber + 1) % 256
              /\ eeTestNumber' = testNumber'
              /\ eeNumberOfTestsPassed' = numberOfTestsPassed' % 256
              /\ pc' = "loop"
    /\ UNCHANGED <<watchDogFlag, testDurationSeconds, bootRec,
                   isrCount, unreported, readmeVars>>

\* mutant: the pass count is stored before it is incremented
Record_StalePassCount(result) ==
  \E r \in {result} :
    /\ millis' = r.ms
    /\ rtcTime' = Rebase(r.rtc, r.st).rtc
    /\ lastPublish' = r.lp
    /\ emits' = r.emits
    /\ lastMsg' = r.msg
    /\ eeTestStartTime' = Rebase(r.rtc, r.st).st
    /\ lastCall' = [r.call EXCEPT !.ret = r.ret]
    /\ calls' = IF calls < 2 THEN calls + 1 ELSE calls
    /\ IF r.suspended
         THEN /\ pc' = IF r.tn = 4 THEN "asleep" ELSE "off"
              /\ UNCHANGED <<testNumber, numberOfTestsPassed, eeTestNumber,
                             eeNumberOfTestsPassed>>
         ELSE /\ numberOfTestsPassed' = IF r.ret THEN numberOfTestsPassed + 1
                                                 ELSE numberOfTestsPassed
              /\ testNumber' = (testNumber + 1) % 256
              /\ eeTestNumber' = testNumber'
              /\ eeNumberOfTestsPassed' = numberOfTestsPassed % 256
              /\ pc' = "loop"
    /\ UNCHANGED <<watchDogFlag, testDurationSeconds, bootRec,
                   isrCount, unreported, readmeVars>>

\* cases 1..5 once the test procedure has run to r: either the device is suspended
\* inside the procedure, or the outcome is counted and both counters are stored
Record(result) ==
  \E r \in {result} :
    /\ millis' = r.ms
    /\ rtcTime' = Rebase(r.rtc, r.st).rtc
    /\ lastPublish' = r.lp
    /\ emits' = r.emits
    /\ lastMsg' = r.msg
    /\ eeTestStartTime' = Rebase(r.rtc, r.st).st
    /\ lastCall' = [r.call EXCEPT !.ret = r.ret]
    /\ calls' = IF calls < 2 THEN calls + 1 ELSE calls
    /\ IF r.suspended
         THEN /\ pc' = IF r.tn = 4 THEN "asleep" ELSE "off"
              /\ UNCHANGED <<testNumber, numberOfTestsPassed, eeTestNumber,
                             eeNumberOfTestsPassed>>
         ELSE /\ numberOfTestsPassed' = IF r.ret THEN numberOfTestsPassed + 1
                                                 ELSE numberOfTestsPassed
              /\ testNumber' = (testNumber + 1) % 256
              /\ eeTestNumber' = testNumber'
              /\ eeNumberOfTestsPassed' = numberOfTestsPassed' % 256
              /\ pc' = "loop"
    /\ UNCHANGED <<watchDogFlag, testDurationSeconds, bootRec,
                   isrCount, unreported, readmeVars>>

Case1 ==
  /\ AtSwitch
  /\ testNumber = 1
  /\ \E secs \in SleepSecs : Record(systemSleepTest(Ctx, secs))

Case2 ==
  /\ AtSwitch
  /\ testNumber = 2
  /\ \E waitMs \in AlarmWaitsMs, intr \in BOOLEAN, pin \in BOOLEAN :
        Record(rtcAlarmTest(Ctx, waitMs, intr, pin))

Case3 ==
  /\ AtSwitch
  /\ testNumber = 3
  /\ \E secs \in ButtonSecs : Record(systemSleepWakeOnInterruptTest(Ctx, secs))

Case4 ==
  /\ AtSwitch
  /\ testNumber = 4
  /\ Record(systemDeepSleepRTCWakeTest(Ctx))

Case5 ==
  /\ AtSwitch
  /\ testNumber = 5
  /\ Record(powerOffSleepWithRTCWakeTest(Ctx))

\* default: publish the tally, wait, and start over
CaseDefault ==
  /\ AtSwitch
  /\ testNumber > 5
  /\ LET s == IF testNumber = 6
                THEN Pass(Publish(Ctx, "Final Result", "Sleep Tests Complete - Passed",
                                  numberOfTestsPassed, numberOfTests), ReportDelayMs)
                ELSE Ctx
     IN  /\ millis' = s.ms
         /\ rtcTime' = Rebase(s.rtc, s.st).rtc
         /\ lastPublish' = s.lp
         /\ emits' = s.emits
         /\ lastMsg' = s.msg
  /\ testNumber' = IF testNumber = 6 THEN 0 ELSE testNumber
  /\ lastCall' = [NoCall EXCEPT !.test = testNumber]
  /\ pc' = "loop"
  /\ UNCHANGED <<numberOfTestsPassed, watchDogFlag, testDurationSeconds, eeTestNumber,
                 eeTestStartTime, eeNumberOfTestsPassed,
                 calls, bootRec, isrCount, unreported, readmeVars>>

\* the RTC alarm (or the shared wake pin) ends the deep sleep or restores the power
\* after secs seconds: the device reboots, and only the EEPROM and the RTC survive
Wake(secs) ==
  /\ pc \in {"asleep", "off"}
  /\ rtcTime' = Rebase(rtcTime + secs, eeTestStartTime).rtc
  /\ pc' = "boot"
  /\ testNumber' = 0
  /\ numberOfTestsPassed' = 0
  /\ watchDogFlag' = FALSE
  /\ millis' = 0
  /\ lastPublish' = 0
  /\ emits' = <<>>
  /\ lastMsg' = NoMsg
  /\ calls' = 0
  /\ isrCount' = 0
  /\ unreported' = FALSE
  /\ UNCHANGED <<testDurationSeconds, eeTestNumber, eeTestStartTime,
                 eeNumberOfTestsPassed, lastCall, bootRec, readmeVars>>

Next ==
  \/ Setup
  \/ watchdogISR
  \/ Service
  \/ ClearFlag
  \/ Case0Idle
  \/ \E waitMs \in PressWaitsMs : Case0Pressed(waitMs)
  \/ Case1
  \/ Case2
  \/ Case3
  \/ Case4
  \/ Case5
  \/ CaseDefault
  \/ \E secs \in SuspendSecs : Wake(secs)

Spec == Init /\ [][Next]_vars

\* The processor executes the next statement: setup() and loop() run on, a blocking
\* sleep or wait returns, and the RTC alarm wakes a device that is asleep or off.
Progress ==
  \/ Setup
  \/ Service
  \/ ClearFlag
  \/ Case1
  \/ Case2
  \/ Case3
  \/ Case4
  \/ Case5
  \/ CaseDefault
  \/ \E secs \in SuspendSecs : Wake(secs)

\* The user presses the switch sooner or later while the program polls it.
Pressed == \E waitMs \in PressWaitsMs : Case0Pressed(waitMs)

LiveSpec == Spec /\ WF_vars(Progress) /\ SF_vars(Pressed)

---------------------------------------------------------------------------
\* The same program on a device whose EEPROM cells are all 0 at the first power-up

InitClean ==
  /\ Init
  /\ eeTestNumber = 0
  /\ eeTestStartTime = 0
  /\ eeNumberOfTestsPassed = 0

SpecClean == InitClean /\ [][Next]_vars

---------------------------------------------------------------------------
\* setup() alone, on every content of the two EEPROM bytes it loads

InitBoot ==
  /\ pc = "boot"
  /\ PowerUp
  /\ testNumber = 0
  /\ testDurationSeconds = DefaultDuration
  /\ eeTestNumber \in Byte
  /\ eeNumberOfTestsPassed \in Byte
  /\ eeTestStartTime = 0
  /\ rtcTime = RTCEpoch
  /\ eeTestDurationSeconds = DefaultDuration

NextBoot == Setup

SpecBoot == InitBoot /\ [][NextBoot]_vars

---------------------------------------------------------------------------
\* elapsedTimeCorrect(false) alone: either a start time was stored, and the RTC now
\* reads any time from 0 to MaxElapsed seconds later, or none was stored (the cell
\* holds 0), and the RTC reads a calendar time

InitVerify ==
  /\ pc = "verify"
  /\ PowerUp
  /\ testDurationSeconds = DefaultDuration
  /\ \E tn \in 1..numberOfTests :
       /\ testNumber = tn
       /\ eeTestNumber = tn
  /\ eeNumberOfTestsPassed = 0
  /\ eeTestStartTime \in {0, RTCEpoch}
  /\ \E e \in 0..MaxElapsed : rtcTime = RTCEpoch + e
  /\ eeTestDurationSeconds = DefaultDuration

\* the call elapsedTimeCorrect(false) of a test procedure
Verify ==
  /\ pc = "verify"
  /\ LET r == elapsedTimeCorrect(Ctx, FALSE)
     IN  /\ millis' = r.ms
         /\ rtcTime' = Rebase(r.rtc, r.st).rtc
         /\ eeTestStartTime' = Rebase(r.rtc, r.st).st
         /\ lastPublish' = r.lp
         /\ emits' = r.emits
         /\ lastMsg' = r.msg
         /\ lastCall' = [r.call EXCEPT !.ret = r.ret]
  /\ pc' = "verified"
  /\ UNCHANGED <<testNumber, numberOfTestsPassed, watchDogFlag, testDurationSeconds,
                 eeTestNumber, eeNumberOfTestsPassed, calls, bootRec, isrCount, unreported,
                 readmeVars>>

NextVerify == Verify

SpecVerify == InitVerify /\ [][NextVerify]_vars

---------------------------------------------------------------------------
\* The two-test program of README.md: setup() and the cloud function setDuration

\* the characters of a command
DigitChars == <<"0", "1", "2", "3", "4", "5", "6", "7", "8", "9">>

IsDigit(c) == \E i \in 1..Len(DigitChars) : DigitChars[i] = c

DigitValue(c) == (CHOOSE i \in 1..Len(DigitChars) : DigitChars[i] = c) - 1

\* the decimal text of an integer, as the caller of the cloud function types it
RECURSIVE Decimal(_)
Decimal(n) ==
  IF n < 0 THEN <<"-">> \o Decimal(-n)
  ELSE IF n < 10 THEN <<DigitChars[n + 1]>>
  ELSE Decimal(n \div 10) \o <<DigitChars[(n % 10) + 1]>>

\* the digits at the head of str, accumulated onto acc.v; acc.over once the value
\* has passed LongMax
RECURSIVE ReadDigits(_, _)
ReadDigits(str, acc) ==
  IF str = <<>> \/ ~IsDigit(Head(str)) THEN acc
  ELSE LET d == DigitValue(Head(str))
       IN  IF acc.over \/ acc.v > (LongMax - d) \div 10
             THEN ReadDigits(Tail(str), [v |-> LongMax, over |-> TRUE])
             ELSE ReadDigits(Tail(str), [v |-> acc.v * 10 + d, over |-> FALSE])

RECURSIVE SkipSpace(_)
SkipSpace(str) == IF str # <<>> /\ Head(str) = " " THEN SkipSpace(Tail(str)) ELSE str

\* strtol(str, &pEND, 10) on a 32-bit long: blanks, an optional sign, digits; the
\* result of text with no digits is 0, and a value out of range is LONG_MAX or LONG_MIN
strtol(str) ==
  LET s1 == SkipSpace(str)
      neg == s1 # <<>> /\ Head(s1) = "-"
      s2 == IF s1 # <<>> /\ Head(s1) \in {"-", "+"} THEN Tail(s1) ELSE s1
      mag == ReadDigits(s2, [v |-> 0, over |-> FALSE])
  IN  IF neg THEN (IF mag.over THEN (0 - LongMax) - 1 ELSE 0 - mag.v)
      ELSE mag.v

\* the commands the cloud may send
Commands ==
  {Decimal(n) : n \in CommandValues}
  \cup {<<>>, <<"a", "b">>, <<"1", "2", "x">>, <<" ", "7">>, <<"+", "5">>, <<"-", "0">>,
        <<"3", "6", "0", "0", ".", "9">>, <<"-", "-", "1">>,
        <<"-", "9", "9", "9", "9", "9", "9", "9", "9", "9", "9", "9">>,
        <<"9", "9", "9", "9", "9", "9", "9", "9", "9", "9", "9">>}

\* mutant: the upper bound is exclusive
setDuration_ExclusiveUpper(s, command) ==
  LET tempTime == strtol(command)
  IN  IF tempTime < 0 \/ tempTime >= MaxDuration
        THEN [ctx |-> s, ee |-> eeTestDurationSeconds, arg |-> tempTime, ret |-> 0]
        ELSE LET a == [s EXCEPT !.tds = tempTime]
                 p == Publish(a, "Test Duration", "Test duration set to", tempTime, 0)
             IN  [ctx |-> Pass(p, SetDurationDelayMs), ee |-> tempTime,
                  arg |-> tempTime, ret |-> 1]

\* int setDuration(String command)
setDuration(s, command) ==
  LET tempTime == strtol(command)
  IN  IF tempTime < 0 \/ tempTime > MaxDuration
        THEN [ctx |-> s, ee |-> eeTestDurationSeconds, arg |-> tempTime, ret |-> 0]
        ELSE LET a == [s EXCEPT !.tds = tempTime]
                 p == Publish(a, "Test Duration", "Test duration set to", tempTime, 0)
             IN  [ctx |-> Pass(p, SetDurationDelayMs), ee |-> tempTime,
                  arg |-> tempTime, ret |-> 1]

\* the first power-up of the README program
InitDuration ==
  /\ pc = "boot"
  /\ PowerUp
  /\ testNumber = 0
  /\ testDurationSeconds = ReadmeDefaultDuration
  /\ eeTestNumber \in StoredBytes
  /\ eeNumberOfTestsPassed = 0
  /\ eeTestStartTime = 0
  /\ rtcTime = RTCEpoch
  /\ eeTestDurationSeconds \in StoredDurations

\* the bounds check of the README's setup() on the stored test number
ReadmeLoadTestNumber(stored) == IF stored < 0 \/ stored > ReadmeNumberOfTests THEN 0 ELSE stored

\* setup() of the README program
ReadmeSetup ==
  /\ pc = "boot"
  /\ LET tn == ReadmeLoadTestNumber(eeTestNumber)
         s0 == [Ctx EXCEPT !.tn = tn, !.tds = eeTestDurationSeconds]
         s1 == Publish(s0, "Test Duration", "", s0.tds, 0)
         s2 == Publish(s1, "Status",
                       IF tn # 0 THEN "Continuing after reset" ELSE "Beginning Test Run",
                       0, 0)
     IN  /\ testNumber' = tn
         /\ testDurationSeconds' = s2.tds
         /\ millis' = s2.ms
         /\ rtcTime' = Rebase(s2.rtc, s2.st).rtc
         /\ lastPublish' = s2.lp
         /\ emits' = s2.emits
         /\ lastMsg' = s2.msg
         /\ bootRec' = [testNumber |-> eeTestNumber, passed |-> -1,
                         armed |-> (eeTestStartTime # 0)]
  /\ pc' = "loop"
  /\ UNCHANGED <<numberOfTestsPassed, watchDogFlag, eeTestNumber, eeTestStartTime,
                 eeNumberOfTestsPassed, lastCall, calls, isrCount, unreported, readmeVars>>

\* the cloud calls the function "Duration-Sec" between two passes of loop()
CallSetDuration(command) ==
  /\ pc = "loop"
  /\ calls < MaxCalls
  /\ LET r == setDuration(Ctx, command)
     IN  /\ testDurationSeconds' = r.ctx.tds
         /\ eeTestDurationSeconds' = r.ee
         /\ millis' = r.ctx.ms
         /\ rtcTime' = Rebase(r.ctx.rtc, r.ctx.st).rtc
         /\ lastPublish' = r.ctx.lp
         /\ emits' = r.ctx.emits
         /\ lastMsg' = r.ctx.msg
         /\ retVal' = r.ret
         /\ lastArg' = r.arg
  /\ calls' = calls + 1
  /\ UNCHANGED <<pc, testNumber, numberOfTestsPassed, watchDogFlag, eeTestNumber,
                 eeTestStartTime, eeNumberOfTestsPassed, lastCall, bootRec, isrCount, unreported>>

NextDuration ==
  \/ ReadmeSetup
  \/ \E command \in Commands : CallSetDuration(command)

SpecDuration == InitDuration /\ [][NextDuration]_vars

----------------------------------------------------------------------------
\* The sequencer of the program listed in README.md (two tests)

\* bool elapsedTimeCorrect(bool start) of README.md: the end of an interval reports
\* the elapsed time and returns 1 whatever it is
ReadmeElapsedTimeCorrect(ctx, start) ==
  The({IF start
         THEN [s EXCEPT !.st = s.rtc, !.ret = FALSE, !.call.begins = @ + 1]
         ELSE LET startTime == s.st
                  elapsedTime == s.rtc - startTime
                  z == [s EXCEPT !.st = 0, !.call.ends = @ + 1,
                                 !.call.elapsed = elapsedTime,
                                 !.call.adjustment = BaseAdjustment]
                  p == Publish(z, "Result", "Passed elapsed time", elapsedTime, 0)
              IN  [p EXCEPT !.ret = TRUE] : s \in {ctx}})

\* bool systemSleepTest() of README.md: the stop-mode sleep returns after secs seconds
ReadmeSystemSleepTest(s, secs) ==
  LET s1 == Publish(s, "Test 1", "System Stop Mode Sleep", 0, 0)
      s2 == Pass(s1, ReadmeTestDelayMs)
      s3 == ReadmeElapsedTimeCorrect(s2, TRUE)
      s4 == Pass(s3, secs * 1000)
      s5 == [s4 EXCEPT !.tn = (@ + 1) % 256]
  IN  ReadmeElapsedTimeCorrect(s5, FALSE)

\* bool powerOffSleepWithRTCWakeTest() of README.md: the branch is taken on
\* testNumber == 1; the arm branch stores testNumber + 1 before it arms
ReadmePowerOffSleepWithRTCWakeTest(s) ==
  IF s.tn = 1
    THEN LET s1 == Publish(s, "Test 2", "Power Off with EN pin", 0, 0)
             s2 == [s1 EXCEPT !.tn = (@ + 1) % 256]
             s3 == Pass(s2, ReadmeTestDelayMs)
             s4 == ReadmeElapsedTimeCorrect(s3, TRUE)
         IN  [s4 EXCEPT !.call.alarms = @ + 1, !.ret = TRUE]
    ELSE ReadmeElapsedTimeCorrect([s EXCEPT !.tn = 0], FALSE)

\* what loop() of README.md does with a finished case: EEPROM.write(testNumberAddr,
\* testNumber); the returned value is not used
ReadmeRecord(result, next) ==
  \E r \in {result} :
    /\ millis' = r.ms
    /\ rtcTime' = Rebase(r.rtc, r.st).rtc
    /\ lastPublish' = r.lp
    /\ emits' = r.emits
    /\ lastMsg' = r.msg
    /\ eeTestStartTime' = Rebase(r.rtc, r.st).st
    /\ lastCall' = [r.call EXCEPT !.ret = r.ret]
    /\ testNumber' = r.tn
    /\ eeTestNumber' = r.tn
    /\ pc' = next
    /\ UNCHANGED <<numberOfTestsPassed, watchDogFlag, testDurationSeconds,
                   eeNumberOfTestsPassed, calls, bootRec, isrCount, unreported,
                   readmeVars>>

\* case 0 of README.md
ReadmeCase0 ==
  /\ AtSwitch
  /\ testNumber = 0
  /\ \E secs \in ReadmeSleepSecs : ReadmeRecord(ReadmeSystemSleepTest(Ctx, secs), "loop")

\* case 1 of README.md.  After rtc.setAlarm the carrier board removes the power
\* through the enable pin: the return of the arm branch "should never reach here".
ReadmeCase1 ==
  /\ AtSwitch
  /\ testNumber = 1
  /\ ReadmeRecord(ReadmePowerOffSleepWithRTCWakeTest(Ctx), "off")

\* default of README.md: at testNumber == 2 publish the completion and start over
ReadmeCaseDefault ==
  /\ AtSwitch
  /\ testNumber >= ReadmeNumberOfTests
  /\ LET s == IF testNumber = ReadmeNumberOfTests
                THEN Pass(Publish(Ctx, "Complete", "Tests Complete - 60 sec delay", 0, 0),
                          ReadmeCompleteDelayMs)
                ELSE Ctx
     IN  /\ millis' = s.ms
         /\ rtcTime' = Rebase(s.rtc, s.st).rtc
         /\ lastPublish' = s.lp
         /\ emits' = s.emits
         /\ lastMsg' = s.msg
  /\ testNumber' = IF testNumber = ReadmeNumberOfTests THEN 0 ELSE testNumber
  /\ lastCall' = [NoCall EXCEPT !.test = testNumber]
  /\ pc' = "loop"
  /\ UNCHANGED <<numberOfTestsPassed, watchDogFlag, testDurationSeconds, eeTestNumber,
                 eeTestStartTime, eeNumberOfTestsPassed,
                 calls, bootRec, isrCount, unreported, readmeVars>>

\* the first power-up of the README program: no interval is open
InitReadme ==
  /\ pc = "boot"
  /\ PowerUp
  /\ testNumber = 0
  /\ testDurationSeconds = ReadmeDefaultDuration
  /\ eeTestNumber \in StoredBytes
  /\ eeNumberOfTestsPassed = 0
  /\ eeTestStartTime = 0
  /\ rtcTime = RTCEpoch
  /\ eeTestDurationSeconds \in StoredDurations

NextReadme ==
  \/ ReadmeSetup
  \/ watchdogISR
  \/ Service
  \/ ClearFlag
  \/ ReadmeCase0
  \/ ReadmeCase1
  \/ ReadmeCaseDefault
  \/ \E secs \in ReadmeSuspendSecs : Wake(secs)

SpecReadme == InitReadme /\ [][NextReadme]_vars

---------------------------------------------------------------------------
\* Claims

\* a test procedure has returned its outcome to loop(), which has recorded it
Returned == pc = "loop" /\ lastCall.test \in 1..numberOfTests /\ lastCall.suspends = 0

\* C1: a boot that finds the stored index 4 or 5 with a non-zero start time calls
\* that test first, and the call does elapsedTimeCorrect(false) once and neither
\* sets the alarm, nor calls elapsedTimeCorrect(true), nor suspends; its outcome
\* is recorded.
C1_ResumeNeverRearms ==
  (/\ bootRec.testNumber \in {4, 5}
   /\ bootRec.armed
   /\ calls = 1
   /\ lastCall.test \in 1..numberOfTests)
  => /\ lastCall.test = bootRec.testNumber
     /\ lastCall.entryArmed
     /\ lastCall.ends = 1
     /\ lastCall.alarms = 0
     /\ lastCall.begins = 0
     /\ lastCall.suspends = 0
     /\ pc \in {"loop", "clear", "switch"}
     /\ eeTestNumber = bootRec.testNumber + 1

C1_Witness ==
  /\ bootRec.testNumber = 4
  /\ bootRec.armed
  /\ calls = 1
  /\ lastCall.test = 4
  /\ lastCall.ends = 1
  /\ lastCall.ret
  /\ pc = "loop"

\* C2 as claimed: for a test other than the deep-sleep test, elapsedTimeCorrect(false)
\* passes exactly when target - 2 <= elapsed <= target.
C2_ToleranceBelowTarget ==
  (pc = "verified" /\ testNumber # 4)
  => (lastCall.ret <=> (/\ testDurationSeconds - 2 <= lastCall.elapsed
                        /\ lastCall.elapsed <= testDurationSeconds))

\* C2 as amended: for a test other than the deep-sleep test, elapsedTimeCorrect(false)
\* passes exactly when target <= elapsed <= target + 2, and clears the start time.
C2_ToleranceAboveTarget ==
  (pc = "verified" /\ testNumber # 4)
  => /\ lastCall.ret <=> (/\ testDurationSeconds <= lastCall.elapsed
                          /\ lastCall.elapsed <= testDurationSeconds + 2)
     /\ lastCall.ends = 1
     /\ lastCall.adjustment = 2
     /\ lastMsg.a = lastCall.elapsed

C2_Witness ==
  /\ pc = "verified"
  /\ testNumber = 1
  /\ lastCall.elapsed = testDurationSeconds + 2
  /\ lastCall.ret
  /\ lastMsg.text = "Passed elapsed time"

\* C3 as claimed: after the tick that publishes the tally, the test number is 0 in
\* memory and the pass count is 0 in memory and in the EEPROM.  (The claim's fourth
\* part, a stored test number of 0, is left out: the tick leaves the stored 6, which
\* setup() loads as 0.)
C3_TallyResets ==
  (pc = "loop" /\ lastCall.test = numberOfTests + 1)
  => /\ testNumber = 0
     /\ numberOfTestsPassed = 0
     /\ eeNumberOfTestsPassed = 0

\* C4: when the device is suspended (deep sleep) or powered off, the EEPROM holds
\* the start time that elapsedTimeCorrect(true) stored in this call, not 0, and the
\* index of the suspending test, which setup() will load unchanged.
C4_PersistBeforeSuspend ==
  pc \in {"asleep", "off"}
  => /\ lastCall.suspends = 1
     /\ lastCall.begins = 1
     /\ eeTestStartTime # 0
     /\ eeTestStartTime = rtcTime
     /\ eeTestNumber = (IF pc = "asleep" THEN 4 ELSE 5)
     /\ lastCall.test = eeTestNumber
     /\ LoadTestNumber(eeTestNumber) = eeTestNumber

C4_Witness == pc = "off" /\ lastCall.test = 5 /\ eeTestStartTime # 0 /\ eeTestNumber = 5

\* C5: after setup() the test number is the stored byte when that is 0..5 and 0
\* otherwise, the pass count is the stored byte when that is 0..5 and 0 otherwise,
\* and both lie in 0..numberOfTests.
C5_Clamping ==
  (pc = "loop" /\ calls = 0 /\ lastCall = NoCall /\ bootRec # NoBoot)
  => /\ testNumber = (IF bootRec.testNumber > numberOfTests THEN 0 ELSE bootRec.testNumber)
     /\ numberOfTestsPassed = (IF bootRec.passed \in 0..numberOfTests THEN bootRec.passed ELSE 0)
     /\ testNumber \in 0..numberOfTests
     /\ numberOfTestsPassed \in 0..numberOfTests

C5_Witness ==
  /\ pc = "loop"
  /\ bootRec.testNumber = 6
  /\ testNumber = 0
  /\ bootRec.passed = 200
  /\ numberOfTestsPassed = 0

\* C6: rtcAlarmTest returns a pass only when both the RTC interrupt flag and the
\* wake pin read true, and a fail, without verifying the time, when at most one does.
C6_DualCondition ==
  (lastCall.test = 2)
  => /\ lastCall.ret => (lastCall.intr /\ lastCall.pin)
     /\ ~(lastCall.intr /\ lastCall.pin) => (~lastCall.ret /\ lastCall.ends = 0)

C6_Witness ==
  /\ pc = "loop"
  /\ lastCall.test = 2
  /\ lastCall.intr
  /\ ~lastCall.pin
  /\ ~lastCall.ret
  /\ testNumber = 3

\* C7: a call of setDuration with a number below 0 or above 3600 returns 0 and
\* leaves the duration, its EEPROM copy and the publish stream as they were; a call
\* with a number in 0..3600 returns 1, sets and stores the duration, and publishes
\* one "Test Duration" event.
C7_SetDurationBounds ==
  [][calls' = calls + 1 =>
       IF lastArg' < 0 \/ lastArg' > 3600
         THEN /\ retVal' = 0
              /\ UNCHANGED <<testDurationSeconds, eeTestDurationSeconds, emits, lastMsg,
                             lastPublish, millis>>
         ELSE /\ retVal' = 1
              /\ testDurationSeconds' = lastArg'
              /\ eeTestDurationSeconds' = lastArg'
              /\ lastMsg' = [name |-> "Test Duration", text |-> "Test duration set to",
                             a |-> lastArg', b |-> 0]
              /\ emits' = Window(Append(emits, lastPublish'))
              /\ lastPublish' >= lastPublish + PublishInterval]_vars

C7_Witness ==
  /\ calls = 2
  /\ retVal = 0
  /\ lastArg = 3601
  /\ testDurationSeconds = 3600
  /\ eeTestDurationSeconds = 3600
  /\ lastMsg.a = 3600

\* C8: two publishes of one boot are at least 1000 ms apart (so N of them span at
\* least (N - 1) seconds), and each is made at the time the meter admitted it.
C8_RateLimit ==
  /\ \A i, j \in 1..Len(emits) :
        i < j => (j - i + 1) <= ((emits[j] - emits[i]) \div 1000) + 1
  /\ \A i \in 1..(Len(emits) - 1) : emits[i + 1] - emits[i] >= PublishInterval
  /\ Len(emits) > 0 => emits[Len(emits)] = lastPublish

C8_Witness ==
  /\ Len(emits) >= 2
  /\ emits[Len(emits)] - emits[Len(emits) - 1] = PublishInterval
  /\ lastMsg.name = "Watchdog"
  /\ millis = lastPublish

\* C9: under fairness, whatever the tests return, the default case publishes the
\* tally and resets the test number to 0 again and again, from every reachable state.
C9_TallyInfinitelyOften ==
  []<><<CaseDefault /\ lastMsg'.name = "Final Result" /\ testNumber' = 0>>_vars

\* the tally of a run in which a test failed
C9_Witness ==
  /\ pc = "loop"
  /\ lastCall.test = numberOfTests + 1
  /\ testNumber = 0
  /\ lastMsg.name = "Final Result"
  /\ lastMsg.a < numberOfTests

\* C10 as claimed, for a test procedure that found the start time 0 or stored one
\* itself: once it has returned its outcome, the stored start time is 0.
C10_SentinelClearedOnReturn ==
  (Returned /\ (~lastCall.entryArmed \/ lastCall.begins > 0))
  => eeTestStartTime = 0

\* C11 as claimed: in the README program, once setup() has run, testDurationSeconds
\* lies in 0..3600, whatever the EEPROM held and whatever setDuration was sent.
C11_DurationInRange ==
  pc = "loop" => testDurationSeconds \in 0..3600

\* C12 as claimed, for a boot that found the stored start time 0: when test 4 or 5
\* is called right after another test of the same boot was recorded, it sets the
\* alarm, calls elapsedTimeCorrect(true) and suspends; it records no outcome.
C12_FirstEntryArms ==
  (lastCall.test \in {4, 5} /\ calls = 2 /\ bootRec # NoBoot /\ ~bootRec.armed)
  => /\ lastCall.alarms = 1
     /\ lastCall.begins = 1
     /\ lastCall.suspends = 1
     /\ pc \in {"asleep", "off"}

CaseTest == Case1 \/ Case2 \/ Case3 \/ Case4 \/ Case5

\* C14: when the test procedure of case N returns an outcome, the test number
\* becomes N + 1, the pass count grows by 1 on a pass and stays on a fail, and the
\* EEPROM holds both new values when the case ends.
C14_OutcomeStep ==
  [][(CaseTest /\ lastCall'.suspends = 0)
       => /\ lastCall'.test = testNumber
          /\ testNumber \in 1..numberOfTests
          /\ testNumber' = testNumber + 1
          /\ numberOfTestsPassed' = IF lastCall'.ret THEN numberOfTestsPassed + 1
                                                     ELSE numberOfTestsPassed
          /\ eeTestNumber' = testNumber'
          /\ eeNumberOfTestsPassed' = numberOfTestsPassed']_vars

\* tests 1 and 2 of one boot have been recorded, the first a pass, the second a fail
C14_Witness ==
  /\ pc = "loop"
  /\ calls = 2
  /\ bootRec.testNumber = 1
  /\ lastCall.test = 2
  /\ ~lastCall.ret
  /\ testNumber = 3
  /\ eeTestNumber = 3
  /\ numberOfTestsPassed = bootRec.passed + 1
  /\ eeNumberOfTestsPassed = numberOfTestsPassed
  /\ bootRec.passed \in 0..numberOfTests

\* C15 as claimed: the pass count is at most numberOfTests in every state, and so
\* is the count that a tally reports.
C15_PassCountBound ==
  /\ numberOfTestsPassed \in 0..numberOfTests
  /\ lastMsg.name = "Final Result" => lastMsg.a \in 0..numberOfTests

\* C16 as claimed: while the device is in deep sleep or powered off, the values that
\* setup() will load from the EEPROM are the test number and the pass count that the
\* program held in memory when it suspended.
C16_ProgressSurvivesReboot ==
  pc \in {"asleep", "off"}
  => /\ LoadTestNumber(eeTestNumber) = testNumber
     /\ LoadTestsPassed(eeNumberOfTestsPassed) = numberOfTestsPassed

\* C17 as claimed: when the wait of rtcAlarmTest ends as the alarm fires, AlarmSeconds
\* after it was set, and the interrupt flag and the wake pin both read true, the
\* test returns a pass.
C17_AlarmTestPasses ==
  (/\ pc = "loop"
   /\ lastCall.test = 2
   /\ lastCall.intr
   /\ lastCall.pin
   /\ lastCall.elapsed = AlarmSeconds)
  => lastCall.ret

\* C18 as claimed: tests 1 and 3 each call elapsedTimeCorrect(true) and then
\* elapsedTimeCorrect(false), and the stored start time is 0 when they return.
C18_SyncTestsUseVerifier ==
  (pc = "loop" /\ lastCall.test \in {1, 3})
  => /\ lastCall.begins = 1
     /\ lastCall.ends = 1
     /\ eeTestStartTime = 0

\* C18 as amended: test 1 calls elapsedTimeCorrect(true), sleeps, and returns the
\* verdict of elapsedTimeCorrect(false), with the stored start time 0 on return;
\* test 3 calls neither, passes exactly when the RTC time over the sleep is at most
\* testDurationSeconds, and leaves the stored start time as it found it.
C18_TimerTestVerifiesButtonTestDoesNot ==
  /\ (pc = "loop" /\ lastCall.test = 1)
     => /\ lastCall.begins = 1
        /\ lastCall.ends = 1
        /\ eeTestStartTime = 0
        /\ lastCall.ret <=> (/\ testDurationSeconds <= lastCall.elapsed
                             /\ lastCall.elapsed <= testDurationSeconds + 2)
        /\ lastMsg.name = "Result"
        /\ lastMsg.a = lastCall.elapsed
  /\ (pc = "loop" /\ lastCall.test = 3)
     => /\ lastCall.begins = 0
        /\ lastCall.ends = 0
        /\ (eeTestStartTime # 0) <=> lastCall.entryArmed
        /\ lastCall.ret <=> (lastCall.elapsed <= testDurationSeconds)
        /\ lastMsg.name = "Results"
        /\ lastMsg.text = (IF lastCall.ret THEN "Passed" ELSE "Failed")

\* test 3 woke early, passed, and left a stored start time in place
C18_Witness ==
  /\ pc = "loop"
  /\ lastCall.test = 3
  /\ lastCall.elapsed < testDurationSeconds - 2
  /\ lastCall.ret
  /\ lastCall.entryArmed
  /\ eeTestStartTime # 0

C20_HandlerFrame ==
  [][/\ isrCount' = isrCount + 1
        => /\ watchDogFlag'
           /\ UNCHANGED <<pc, testNumber, numberOfTestsPassed, testDurationSeconds,
                          eeTestNumber, eeTestStartTime, eeNumberOfTestsPassed,
                          millis, lastPublish, rtcTime, emits, lastMsg>>
     /\ (watchDogFlag /\ ~watchDogFlag' /\ pc' # "boot")
        => /\ pc = "clear"
           /\ pc' = "switch"
           /\ lastMsg.name = "Watchdog"
     /\ (~watchDogFlag /\ watchDogFlag') => isrCount' = isrCount + 1]_vars

\* one firing was serviced and cleared, and the handler fired again before the
\* switch of the same pass, with test 3 about to run
C20_Witness ==
  /\ pc = "switch"
  /\ testNumber = 3
  /\ watchDogFlag
  /\ isrCount = 2
  /\ lastMsg.name = "Watchdog"

\* C21: no firing of watchdogISR is lost within one boot: whenever watchDogFlag is
\* false, every firing so far has been followed by a "Watchdog" publish, so the
\* flag is never cleared for a firing that no notification reports.
C21_NoFiringLost == ~watchDogFlag => ~unreported

\* C22: in the program of README.md, a boot that finds a stored start time (the
\* power-off test was armed before the power went) finds the index of that test,
\* 1, and by the time it has published "Complete" end() has run for the interval:
\* the stored start time is 0.
C22_ArmedTestResumed ==
  (/\ pc = "loop"
   /\ bootRec # NoBoot
   /\ bootRec.armed
   /\ lastMsg.name = "Complete")
  => /\ bootRec.testNumber = 1
     /\ eeTestStartTime = 0

====
